---------------------------- MODULE Spec2Model ----------------------------
(***************************************************************************)
(* The ElevenLabs provider plugin: the provider credential validator, the  *)
(* speech-to-text model and the text-to-speech model.  The handlers share  *)
(* no state; a behaviour follows one host request from the call to the     *)
(* last chunk the host pulls from a returned generator.                    *)
(*                                                                         *)
(* Text (exception messages, voice names) is a sequence of one-character   *)
(* strings, so that `in`, indexing and lower() are computed as Python      *)
(* computes them.  A fixed literal that holds no digit and is only ever    *)
(* prepended to a message is written as one element.                       *)
(***************************************************************************)
EXTENDS Naturals, Sequences, FiniteSets

VARIABLES
    op,         \* entry point the host called ("idle": none yet)
    creds,      \* credentials argument
    model,      \* model argument
    audio,      \* audio_file argument (speech2text)
    voice,      \* voice argument (tts)
    calls,      \* remote calls attempted during the call, in order
    sent,       \* keyword arguments of the convert call
    voices,     \* available_voices as returned by voices.get_all()
    caught,     \* exception bound to `ex` in the handler's except clause
    raised,     \* exception the host observes
    ret,        \* value returned to the host
    response,   \* object returned by text_to_speech.convert
    gen,        \* state of stream_generator
    pulled,     \* number of elements the generator took from response
    delivered   \* chunks yielded to the host so far

vars == <<op, creds, model, audio, voice, calls, sent, voices, caught,
          raised, ret, response, gen, pulled, delivered>>

---------------------------------------------------------------------------
(* Bounds *)

MaxMsgParts == 2

MaxVoices == 2

MaxChunks == 3

---------------------------------------------------------------------------
(* Text *)

\* Python `t in s` for strings.
Contains(s, t) ==
    \E i \in 0..Len(s) : i + Len(t) <= Len(s) /\ SubSeq(s, i + 1, i + Len(t)) = t

RECURSIVE Concat(_)
Concat(parts) ==
    IF parts = <<>> THEN <<>> ELSE Head(parts) \o Concat(Tail(parts))

LowerChar(c) ==
    CASE c = "A" -> "a"
      [] c = "B" -> "b"
      [] c = "L" -> "l"
      [] c = "O" -> "o"
      [] OTHER -> c

\* str.lower()
Lower(s) == [i \in 1..Len(s) |-> LowerChar(s[i])]

NoneVal == "None"

\* Python truthiness of None, a str or a bytes value
Falsy(v) == v = NoneVal \/ v = ""

---------------------------------------------------------------------------
(* Exceptions *)

NoErr == [type |-> "none", msg |-> <<>>]

Err(t, m) == [type |-> t, msg |-> m]

HostKinds ==
    {"CredentialsInvalid", "BadRequest", "Unauthorized", "RateLimited",
     "ServerUnavailable", "ConnectionFailed"}

NotRaised == [kind |-> "none", msg |-> <<>>]

CredentialsValidateFailedError(m) == [kind |-> "CredentialsInvalid", msg |-> m]

InvokeBadRequestError(m) == [kind |-> "BadRequest", msg |-> m]

InvokeAuthorizationError(m) == [kind |-> "Unauthorized", msg |-> m]

InvokeRateLimitError(m) == [kind |-> "RateLimited", msg |-> m]

InvokeServerUnavailableError(m) == [kind |-> "ServerUnavailable", msg |-> m]

\* an exception that leaves the plugin as the remote client raised it
Unclassified(ex) == [kind |-> ex.type, msg |-> ex.msg]

ApiKeyRequiredMsg == <<"API key is required">>

MustBeDictMsg == <<"Credentials must be a dictionary">>

NoGetAttrMsg == <<"object has no attribute 'get'">>

NoModelsMsg == <<"Failed to validate API key: Could not retrieve models">>

NoVoicesMsg ==
    <<"N", "o", " ", "v", "o", "i", "c", "e", "s", " ",
      "a", "v", "a", "i", "l", "a", "b", "l", "e">>

NotBytesLikeMsg ==
    <<"a", " ", "b", "y", "t", "e", "s", "-", "l", "i", "k", "e", " ",
      "o", "b", "j", "e", "c", "t">>

---------------------------------------------------------------------------
(* Credentials *)

\* kind: "dict", "mapping" (a Mapping that is no dict) or "other" (None, a
\* str, a list: no get attribute); key: what get('api_key') returns.
Cred(k, key) == [kind |-> k, key |-> key]

CredValues ==
    {Cred("other", NoneVal),
     Cred("dict", NoneVal), Cred("dict", ""), Cred("dict", "sk-1"),
     Cred("mapping", NoneVal), Cred("mapping", "sk-1")}

ValidCred == Cred("dict", "sk-1")

IsDict(c) == c.kind = "dict"

HasGet(c) == c.kind # "other"

\* `if not api_key`
NotApiKeyNoneOnly(c) == c.key = NoneVal

NotApiKey(c) == Falsy(c.key)

---------------------------------------------------------------------------
(* Failure classification *)

SttFailedPrefix == <<"Speech-to-text transcription failed: ">>

TtsFailedPrefix == <<"Text-to-speech generation failed: ">>

ProcessResponsePrefix == <<"Failed to process response: ">>

\* speech2text.py, the except clause of _invoke, with the leading-"5" rule lost
SttClassifyNoServerRule(ex) ==
    IF ex.type = "JSONDecodeError"
    THEN InvokeBadRequestError(ProcessResponsePrefix \o ex.msg)
    ELSE IF Contains(ex.msg, <<"4", "0", "1">>) \/ Contains(ex.msg, <<"4", "0", "3">>)
    THEN InvokeAuthorizationError(SttFailedPrefix \o ex.msg)
    ELSE IF Contains(ex.msg, <<"4", "2", "9">>)
    THEN InvokeRateLimitError(SttFailedPrefix \o ex.msg)
    ELSE InvokeBadRequestError(SttFailedPrefix \o ex.msg)

\* the same clause with the "429" test placed after the leading-"5" test
SttClassifyServerFirst(ex) ==
    IF ex.type = "JSONDecodeError"
    THEN InvokeBadRequestError(ProcessResponsePrefix \o ex.msg)
    ELSE IF Contains(ex.msg, <<"4", "0", "1">>) \/ Contains(ex.msg, <<"4", "0", "3">>)
    THEN InvokeAuthorizationError(SttFailedPrefix \o ex.msg)
    ELSE IF Contains(ex.msg, <<"5">>) /\ Len(ex.msg) > 0 /\ ex.msg[1] = "5"
    THEN InvokeServerUnavailableError(SttFailedPrefix \o ex.msg)
    ELSE IF Contains(ex.msg, <<"4", "2", "9">>)
    THEN InvokeRateLimitError(SttFailedPrefix \o ex.msg)
    ELSE InvokeBadRequestError(SttFailedPrefix \o ex.msg)

SttClassify(ex) ==
    IF ex.type = "JSONDecodeError"
    THEN InvokeBadRequestError(ProcessResponsePrefix \o ex.msg)
    ELSE IF Contains(ex.msg, <<"4", "0", "1">>) \/ Contains(ex.msg, <<"4", "0", "3">>)
    THEN InvokeAuthorizationError(SttFailedPrefix \o ex.msg)
    ELSE IF Contains(ex.msg, <<"4", "2", "9">>)
    THEN InvokeRateLimitError(SttFailedPrefix \o ex.msg)
    ELSE IF Contains(ex.msg, <<"5">>) /\ Len(ex.msg) > 0 /\ ex.msg[1] = "5"
    THEN InvokeServerUnavailableError(SttFailedPrefix \o ex.msg)
    ELSE InvokeBadRequestError(SttFailedPrefix \o ex.msg)

\* tts.py, the except clause of _invoke, with the isinstance test lost
TtsClassifyNoJsonRule(ex) ==
    IF Contains(ex.msg, <<"4", "0", "1">>) \/ Contains(ex.msg, <<"4", "0", "3">>)
    THEN InvokeAuthorizationError(TtsFailedPrefix \o ex.msg)
    ELSE IF Contains(ex.msg, <<"4", "2", "9">>)
    THEN InvokeRateLimitError(TtsFailedPrefix \o ex.msg)
    ELSE IF Contains(ex.msg, <<"5">>) /\ Len(ex.msg) > 0 /\ ex.msg[1] = "5"
    THEN InvokeServerUnavailableError(TtsFailedPrefix \o ex.msg)
    ELSE InvokeBadRequestError(TtsFailedPrefix \o ex.msg)

\* the same clause re-raising a credentials error it caught
TtsClassifyKeepCredentials(ex) ==
    IF ex.type = "CredentialsValidateFailedError"
    THEN CredentialsValidateFailedError(ex.msg)
    ELSE IF ex.type = "JSONDecodeError"
    THEN InvokeBadRequestError(ProcessResponsePrefix \o ex.msg)
    ELSE IF Contains(ex.msg, <<"4", "0", "1">>) \/ Contains(ex.msg, <<"4", "0", "3">>)
    THEN InvokeAuthorizationError(TtsFailedPrefix \o ex.msg)
    ELSE IF Contains(ex.msg, <<"4", "2", "9">>)
    THEN InvokeRateLimitError(TtsFailedPrefix \o ex.msg)
    ELSE IF Contains(ex.msg, <<"5">>) /\ Len(ex.msg) > 0 /\ ex.msg[1] = "5"
    THEN InvokeServerUnavailableError(TtsFailedPrefix \o ex.msg)
    ELSE InvokeBadRequestError(TtsFailedPrefix \o ex.msg)

TtsClassify(ex) ==
    IF ex.type = "JSONDecodeError"
    THEN InvokeBadRequestError(ProcessResponsePrefix \o ex.msg)
    ELSE IF Contains(ex.msg, <<"4", "0", "1">>) \/ Contains(ex.msg, <<"4", "0", "3">>)
    THEN InvokeAuthorizationError(TtsFailedPrefix \o ex.msg)
    ELSE IF Contains(ex.msg, <<"4", "2", "9">>)
    THEN InvokeRateLimitError(TtsFailedPrefix \o ex.msg)
    ELSE IF Contains(ex.msg, <<"5">>) /\ Len(ex.msg) > 0 /\ ex.msg[1] = "5"
    THEN InvokeServerUnavailableError(TtsFailedPrefix \o ex.msg)
    ELSE InvokeBadRequestError(TtsFailedPrefix \o ex.msg)

---------------------------------------------------------------------------
(* What the remote client may answer *)

RemoteTypes == {"ApiError", "JSONDecodeError"}

\* pieces a remote error message is put together from
Fragments ==
    {<<"4", "0", "1">>, <<"4", "0", "3">>, <<"4", "2", "9">>, <<"5">>,
     <<"0">>, <<"x">>}

Messages ==
    {Concat(p) : p \in UNION {[1..n -> Fragments] : n \in 0..MaxMsgParts}}

RemoteErrors == {Err(t, m) : t \in RemoteTypes, m \in Messages}

SampleErrors ==
    {Err(t, m) : t \in RemoteTypes,
                 m \in {<<"4", "0", "1">>, <<"5", "0", "3">>, <<"x">>}}

\* a probe call's answer: err is what it raises (NoErr: it returns), and
\* nonempty tells whether the value it returns is truthy
ProbeAnswers(errors) ==
    {[err |-> e, nonempty |-> TRUE] : e \in errors}
        \cup {[err |-> NoErr, nonempty |-> b] : b \in BOOLEAN}

\* audio_file: an open stream (has read), a bytes value, or a str
NoAudio == [type |-> "none", handle |-> "-", data |-> <<>>]

AudioInputs ==
    {[type |-> "stream", handle |-> h, data |-> <<>>] : h \in {"f1", "f2"}}
        \cup {[type |-> "bytes", handle |-> "-", data |-> d] :
                  d \in {<<>>, <<1>>, <<1, 2>>}}
        \cup {[type |-> "str", handle |-> "-", data |-> <<>>]}

BytesIO(b) == [type |-> "BytesIO", handle |-> "-", data |-> b.data]

SttModels == {"scribe_v1", "scribe_v1_experimental"}

\* speech_to_text.convert: raises err, or returns an object whose text is text
SttAnswers(errors) ==
    {[err |-> e, text |-> <<>>] : e \in errors}
        \cup {[err |-> NoErr, text |-> t] : t \in {<<>>, <<"hello world">>}}

VoiceNames == {<<"A", "l">>, <<"a", "L">>, <<"B", "o">>}

RequestedVoices == {<<"a", "l">>, <<"B", "O">>, <<"z">>}

VoiceIds == <<"v1", "v2", "v3", "v4", "v5">>

\* the service gives every voice an id of its own
VoiceLists ==
    UNION {{[i \in 1..n |-> [name |-> f[i], voice_id |-> VoiceIds[i]]] :
               f \in [1..n -> VoiceNames]} : n \in 0..MaxVoices}

\* voices.get_all: raises err, or returns an object whose voices is voices
ListAnswers(errors, lists) ==
    {[err |-> e, voices |-> <<>>] : e \in errors}
        \cup {[err |-> NoErr, voices |-> vs] : vs \in lists}

TtsModels == {"", "eleven_multilingual_v2"}

Chunks == {"", "aa", "bb"}

ChunkSeqs == UNION {[1..n -> Chunks] : n \in 0..MaxChunks}

NoResponse == [kind |-> "none", chunks |-> <<>>, end |-> NoErr]

\* convert returns a bytes value
BytesResponses ==
    {[kind |-> "bytes", chunks |-> <<b>>, end |-> NoErr] : b \in {"", "mp3bytes"}}

\* or an iterator that gives chunks and then stops or raises end
Responses(errors) ==
    BytesResponses
        \cup {[kind |-> "iter", chunks |-> cs, end |-> e] :
                  cs \in ChunkSeqs, e \in errors \cup {NoErr}}

\* text_to_speech.convert: raises err, or returns response
ConvertAnswers(errors, responses) ==
    {[err |-> e, response |-> NoResponse] : e \in errors}
        \cup {[err |-> NoErr, response |-> r] : r \in responses}

---------------------------------------------------------------------------
(* State *)

NoSent == [model_id |-> "-", voice_id |-> "-", file |-> NoAudio]

NoRet == [kind |-> "none", val |-> <<>>]

Init ==
    /\ op = "idle"
    /\ creds = Cred("other", NoneVal)
    /\ model = ""
    /\ audio = NoAudio
    /\ voice = <<>>
    /\ calls = <<>>
    /\ sent = NoSent
    /\ voices = <<>>
    /\ caught = NoErr
    /\ raised = NotRaised
    /\ ret = NoRet
    /\ response = NoResponse
    /\ gen = "none"
    /\ pulled = 0
    /\ delivered = <<>>

\* what a handler leaves behind: every field it does not name is as in Init
Outcome(cs, ex, r, v) == [calls |-> cs, caught |-> ex, raised |-> r, ret |-> v]

\* the same for _invoke, with the arguments of its convert call
SentOutcome(cs, args, ex, r, v) ==
    [calls |-> cs, sent |-> args, caught |-> ex, raised |-> r, ret |-> v]

Void == [kind |-> "void", val |-> <<>>]

---------------------------------------------------------------------------
(* provider/dify-elevenlabs-provider.py *)

\* the two except clauses of validate_provider_credentials, the message lost
ProviderReraiseNoMessage(ex) ==
    IF ex.type = "CredentialsValidateFailedError"
    THEN CredentialsValidateFailedError(ex.msg)
    ELSE CredentialsValidateFailedError(<<"Invalid API key">>)

ProviderReraise(ex) ==
    IF ex.type = "CredentialsValidateFailedError"
    THEN CredentialsValidateFailedError(ex.msg)
    ELSE CredentialsValidateFailedError(<<"Invalid API key: ">> \o ex.msg)

ProviderValidateOutcome(c, a) ==
    IF ~HasGet(c)
    THEN LET ex == Err("AttributeError", NoGetAttrMsg)
         IN  Outcome(<<>>, ex, ProviderReraise(ex), NoRet)
    ELSE IF NotApiKey(c)
    THEN LET ex == Err("CredentialsValidateFailedError", ApiKeyRequiredMsg)
         IN  Outcome(<<>>, ex, ProviderReraise(ex), NoRet)
    ELSE IF a.err # NoErr
    THEN Outcome(<<"voices.get_default_settings">>, a.err, ProviderReraise(a.err), NoRet)
    ELSE Outcome(<<"voices.get_default_settings">>, NoErr, NotRaised, Void)

ValidateProviderCredentials ==
    /\ op = "idle"
    /\ \E c \in CredValues, a \in ProbeAnswers(SampleErrors) :
          LET o == ProviderValidateOutcome(c, a) IN
          /\ op' = "validate_provider_credentials"
          /\ creds' = c
          /\ calls' = o.calls
          /\ caught' = o.caught
          /\ raised' = o.raised
          /\ ret' = o.ret
    /\ UNCHANGED <<model, audio, voice, sent, voices, response, gen, pulled, delivered>>

---------------------------------------------------------------------------
(* models/speech2text/speech2text.py *)

\* the except clause of validate_credentials
SttValidateReraise(ex) == CredentialsValidateFailedError(ex.msg)

SttValidateOutcome(c, a) ==
    IF ~HasGet(c)
    THEN LET ex == Err("AttributeError", NoGetAttrMsg)
         IN  Outcome(<<>>, ex, SttValidateReraise(ex), NoRet)
    ELSE IF NotApiKey(c)
    THEN LET ex == Err("CredentialsValidateFailedError", ApiKeyRequiredMsg)
         IN  Outcome(<<>>, ex, SttValidateReraise(ex), NoRet)
    ELSE IF a.err # NoErr
    THEN Outcome(<<"speech_to_text.get_models">>, a.err, SttValidateReraise(a.err), NoRet)
    ELSE IF ~a.nonempty
    THEN LET ex == Err("Exception", NoModelsMsg)
         IN  Outcome(<<"speech_to_text.get_models">>, ex, SttValidateReraise(ex), NoRet)
    ELSE Outcome(<<"speech_to_text.get_models">>, NoErr, NotRaised, Void)

SttValidateCredentials ==
    /\ op = "idle"
    /\ \E m \in SttModels, c \in CredValues, a \in ProbeAnswers(SampleErrors) :
          LET o == SttValidateOutcome(c, a) IN
          /\ op' = "speech2text.validate_credentials"
          /\ model' = m
          /\ creds' = c
          /\ calls' = o.calls
          /\ caught' = o.caught
          /\ raised' = o.raised
          /\ ret' = o.ret
    /\ UNCHANGED <<audio, voice, sent, voices, response, gen, pulled, delivered>>

\* model_id of the convert call
SttModelId(m) == "scribe_v1"

\* file of the convert call
SttAudioData(a) == IF a.type = "stream" THEN a ELSE BytesIO(a)

SttInvokeOutcome(m, c, a, ans) ==
    IF ~IsDict(c)
    THEN SentOutcome(<<>>, NoSent, NoErr,
                     CredentialsValidateFailedError(MustBeDictMsg), NoRet)
    ELSE IF NotApiKey(c)
    THEN SentOutcome(<<>>, NoSent, NoErr,
                     CredentialsValidateFailedError(ApiKeyRequiredMsg), NoRet)
    ELSE IF a.type \notin {"stream", "bytes"}
    THEN LET ex == Err("TypeError", NotBytesLikeMsg)
         IN  SentOutcome(<<>>, NoSent, ex, SttClassify(ex), NoRet)
    ELSE LET args == [model_id |-> SttModelId(m), voice_id |-> "-",
                      file |-> SttAudioData(a)]
             cs == <<"speech_to_text.convert">>
         IN  IF ans.err # NoErr
             THEN SentOutcome(cs, args, ans.err, SttClassify(ans.err), NoRet)
             ELSE SentOutcome(cs, args, NoErr, NotRaised,
                              [kind |-> "text", val |-> ans.text])

SttInvokeOn(Ms, Cs, As, Answers) ==
    /\ op = "idle"
    /\ \E m \in Ms, c \in Cs, a \in As, ans \in Answers :
          LET o == SttInvokeOutcome(m, c, a, ans) IN
          /\ op' = "speech2text._invoke"
          /\ model' = m
          /\ creds' = c
          /\ audio' = a
          /\ calls' = o.calls
          /\ sent' = o.sent
          /\ caught' = o.caught
          /\ raised' = o.raised
          /\ ret' = o.ret
    /\ UNCHANGED <<voice, voices, response, gen, pulled, delivered>>

SttInvoke == SttInvokeOn(SttModels, CredValues, AudioInputs, SttAnswers(SampleErrors))

---------------------------------------------------------------------------
(* models/tts/tts.py *)

\* the except clause of validate_credentials
TtsValidateReraise(ex) == CredentialsValidateFailedError(ex.msg)

TtsValidateOutcome(c, a) ==
    IF ~HasGet(c)
    THEN LET ex == Err("AttributeError", NoGetAttrMsg)
         IN  Outcome(<<>>, ex, TtsValidateReraise(ex), NoRet)
    ELSE IF NotApiKey(c)
    THEN LET ex == Err("CredentialsValidateFailedError", ApiKeyRequiredMsg)
         IN  Outcome(<<>>, ex, TtsValidateReraise(ex), NoRet)
    ELSE IF a.err # NoErr
    THEN Outcome(<<"voices.get_all">>, a.err, TtsValidateReraise(a.err), NoRet)
    ELSE Outcome(<<"voices.get_all">>, NoErr, NotRaised, Void)

TtsValidateCredentials ==
    /\ op = "idle"
    /\ \E m \in TtsModels, c \in CredValues, a \in ProbeAnswers(SampleErrors) :
          LET o == TtsValidateOutcome(c, a) IN
          /\ op' = "tts.validate_credentials"
          /\ model' = m
          /\ creds' = c
          /\ calls' = o.calls
          /\ caught' = o.caught
          /\ raised' = o.raised
          /\ ret' = o.ret
    /\ UNCHANGED <<audio, voice, sent, voices, response, gen, pulled, delivered>>

\* the for loop over available_voices, comparing the names as they are
RECURSIVE FindVoiceExact(_, _, _)
FindVoiceExact(vs, v, i) ==
    IF i > Len(vs) THEN NoneVal
    ELSE IF vs[i].name = v THEN vs[i].voice_id
    ELSE FindVoiceExact(vs, v, i + 1)

\* the for loop over available_voices, from index i on
RECURSIVE FindVoice(_, _, _)
FindVoice(vs, v, i) ==
    IF i > Len(vs) THEN NoneVal
    ELSE IF Lower(vs[i].name) = Lower(v) THEN vs[i].voice_id
    ELSE FindVoice(vs, v, i + 1)

\* voice_id after the loop and the fallback to the first voice
VoiceId(vs, v) ==
    LET found == FindVoice(vs, v, 1)
    IN  IF Falsy(found) /\ vs # <<>> THEN vs[1].voice_id ELSE found

\* model or "eleven_turbo_v2"
TtsModelId(m) == IF Falsy(m) THEN "eleven_turbo_v2" ELSE m

\* hasattr(response, '__iter__') and not isinstance(response, bytes)
IsStream(r) == r.kind = "iter"

TtsOutcome(cs, args, vs, ex, r, v, resp, g) ==
    [calls |-> cs, sent |-> args, voices |-> vs, caught |-> ex, raised |-> r,
     ret |-> v, response |-> resp, gen |-> g]

TtsInvokeOutcome(m, c, v, la, ca) ==
    IF ~IsDict(c)
    THEN TtsOutcome(<<>>, NoSent, <<>>, NoErr,
                    CredentialsValidateFailedError(MustBeDictMsg), NoRet,
                    NoResponse, "none")
    ELSE IF NotApiKey(c)
    THEN TtsOutcome(<<>>, NoSent, <<>>, NoErr,
                    CredentialsValidateFailedError(ApiKeyRequiredMsg), NoRet,
                    NoResponse, "none")
    ELSE IF la.err # NoErr
    THEN TtsOutcome(<<"voices.get_all">>, NoSent, <<>>, la.err,
                    TtsClassify(la.err), NoRet, NoResponse, "none")
    ELSE IF Falsy(VoiceId(la.voices, v))
    THEN LET ex == Err("CredentialsValidateFailedError", NoVoicesMsg)
         IN  TtsOutcome(<<"voices.get_all">>, NoSent, la.voices, ex,
                        TtsClassify(ex), NoRet, NoResponse, "none")
    ELSE LET args == [model_id |-> TtsModelId(m),
                      voice_id |-> VoiceId(la.voices, v), file |-> NoAudio]
             cs == <<"voices.get_all", "text_to_speech.convert">>
         IN  IF ca.err # NoErr
             THEN TtsOutcome(cs, args, la.voices, ca.err, TtsClassify(ca.err),
                             NoRet, NoResponse, "none")
             ELSE IF IsStream(ca.response)
             THEN TtsOutcome(cs, args, la.voices, NoErr, NotRaised,
                             [kind |-> "generator", val |-> <<>>],
                             ca.response, "created")
             ELSE TtsOutcome(cs, args, la.voices, NoErr, NotRaised,
                             [kind |-> "bytes", val |-> ca.response.chunks],
                             ca.response, "none")

TtsInvokeOn(Ms, Cs, Vs, ListAs, ConvertAs) ==
    /\ op = "idle"
    /\ \E m \in Ms, c \in Cs, v \in Vs, la \in ListAs, ca \in ConvertAs :
          LET o == TtsInvokeOutcome(m, c, v, la, ca) IN
          /\ op' = "tts._invoke"
          /\ model' = m
          /\ creds' = c
          /\ voice' = v
          /\ calls' = o.calls
          /\ sent' = o.sent
          /\ voices' = o.voices
          /\ caught' = o.caught
          /\ raised' = o.raised
          /\ ret' = o.ret
          /\ response' = o.response
          /\ gen' = o.gen
    /\ UNCHANGED <<audio, pulled, delivered>>

SampleVoiceLists ==
    {<<>>,
     <<[name |-> <<"A", "l">>, voice_id |-> "v1"]>>,
     <<[name |-> <<"B", "o">>, voice_id |-> "v1"],
       [name |-> <<"a", "L">>, voice_id |-> "v2"]>>}

TtsInvoke ==
    TtsInvokeOn(TtsModels, CredValues, RequestedVoices,
                ListAnswers(SampleErrors, SampleVoiceLists),
                ConvertAnswers(SampleErrors, Responses(SampleErrors)))

\* `for chunk in response: if chunk:` from element i on: the index of the
\* next element that is yielded, 0 when the iterator ends first
RECURSIVE NextYielded(_, _)
NextYielded(chunks, i) ==
    IF i >= Len(chunks) THEN 0
    ELSE IF ~Falsy(chunks[i + 1]) THEN i + 1
    ELSE NextYielded(chunks, i + 1)

\* a generator over list(response): everything is taken at the first pull
TakenAll(chunks, j) == Len(chunks)

\* elements taken from response when the element at index j is yielded
Taken(chunks, j) == j

\* the host takes the next chunk from the generator _invoke returned
StreamNext ==
    /\ op = "tts._invoke"
    /\ gen \in {"created", "yielded"}
    /\ LET j == NextYielded(response.chunks, pulled) IN
       IF j > 0
       THEN /\ pulled' = Taken(response.chunks, j)
            /\ delivered' = Append(delivered, response.chunks[j])
            /\ gen' = "yielded"
            /\ UNCHANGED raised
       ELSE /\ pulled' = Len(response.chunks)
            /\ UNCHANGED delivered
            /\ IF response.end # NoErr
               THEN gen' = "raised" /\ raised' = Unclassified(response.end)
               ELSE gen' = "done" /\ UNCHANGED raised
    /\ UNCHANGED <<op, creds, model, audio, voice, calls, sent, voices, caught,
                   ret, response>>

---------------------------------------------------------------------------
(* Specifications *)

Next ==
    \/ ValidateProviderCredentials
    \/ SttValidateCredentials
    \/ TtsValidateCredentials
    \/ SttInvoke
    \/ TtsInvoke
    \/ StreamNext

Spec == Init /\ [][Next]_vars

\* every remote error message within the bound, raised by each remote call of
\* the two _invoke methods
OneVoice == <<[name |-> <<"A", "l">>, voice_id |-> "v1"]>>

SttConvertFails ==
    SttInvokeOn({"scribe_v1"}, {ValidCred},
                {[type |-> "bytes", handle |-> "-", data |-> <<1>>]},
                {[err |-> e, text |-> <<>>] : e \in RemoteErrors})

TtsListFails ==
    TtsInvokeOn({""}, {ValidCred}, {<<"a", "l">>},
                ListAnswers(RemoteErrors, {}), ConvertAnswers({}, BytesResponses))

TtsConvertFails ==
    TtsInvokeOn({""}, {ValidCred}, {<<"a", "l">>},
                ListAnswers({}, {OneVoice}), ConvertAnswers(RemoteErrors, {}))

NextClassify == SttConvertFails \/ TtsListFails \/ TtsConvertFails

SpecClassify == Init /\ [][NextClassify]_vars

\* every list of voices within the bound, returned to _invoke
TtsInvokeVoices ==
    TtsInvokeOn(TtsModels, {ValidCred}, RequestedVoices,
                ListAnswers({}, VoiceLists),
                ConvertAnswers(SampleErrors, BytesResponses))

NextVoices == TtsInvokeVoices

SpecVoices == Init /\ [][NextVoices]_vars

---------------------------------------------------------------------------
(* Properties *)

Validators ==
    {"validate_provider_credentials", "speech2text.validate_credentials",
     "tts.validate_credentials"}

Invokes == {"speech2text._invoke", "tts._invoke"}

\* not a mapping, or api_key missing or empty
BadCredentials(c) == c.kind = "other" \/ c.key = NoneVal \/ c.key = ""

\* the credentials passed the checks _invoke makes before its first remote call
PassedLocalCheck == creds.kind = "dict" /\ ~BadCredentials(creds)

\* voices.get_all() returned its list
ListReturned ==
    /\ op = "tts._invoke"
    /\ calls # <<>>
    /\ ~(Len(calls) = 1 /\ caught.type \in RemoteTypes)

\* C1: with credentials that are no mapping or hold no non-empty api_key,
\* every entry point fails with CredentialsInvalid and attempts no remote call.
C1_BadCredentialsRejectedLocally ==
    (op # "idle" /\ BadCredentials(creds))
        => (raised.kind = "CredentialsInvalid" /\ calls = <<>>)

C1_Witness ==
    /\ op = "tts._invoke"
    /\ creds = Cred("dict", "")
    /\ raised.kind = "CredentialsInvalid"
    /\ calls = <<>>

\* C2: a validation call raises nothing but CredentialsInvalid, and when its
\* probe call failed the message holds the message of the original error.
C2_ValidationFailsAsCredentialsInvalid ==
    op \in Validators =>
        /\ raised.kind \in {"none", "CredentialsInvalid"}
        /\ (calls # <<>> /\ caught # NoErr)
               => (raised.kind = "CredentialsInvalid"
                   /\ Contains(raised.msg, caught.msg))

C2_Witness ==
    /\ op = "validate_provider_credentials"
    /\ calls = <<"voices.get_default_settings">>
    /\ caught.type \in RemoteTypes
    /\ caught.msg = <<"5", "0", "3">>
    /\ raised.kind = "CredentialsInvalid"

\* C3: whatever the remote client raises during a transcribe or synthesize
\* call whose credentials passed the local check, also while the host pulls
\* chunks, the host observes one of the six host error kinds.
C3_EveryRemoteFailureClassified ==
    (op \in Invokes /\ PassedLocalCheck /\ raised.kind # "none")
        => raised.kind \in HostKinds

NonEmpty(chunks) == SelectSeq(chunks, LAMBDA c : c # "")

\* C4: the host receives the non-empty chunks of the remote iterator in
\* order, and when a chunk is handed over the generator has taken from the
\* iterator nothing beyond the element that became that chunk.
C4_StreamIsLazyAndFiltered ==
    (op = "tts._invoke" /\ response.kind = "iter") =>
        /\ gen = "created" => (pulled = 0 /\ delivered = <<>>)
        /\ gen = "yielded" =>
              /\ pulled \in 1..Len(response.chunks)
              /\ delivered = NonEmpty(SubSeq(response.chunks, 1, pulled))
              /\ response.chunks[pulled] = delivered[Len(delivered)]
        /\ gen \in {"done", "raised"} => delivered = NonEmpty(response.chunks)

C4_Witness ==
    /\ gen = "yielded"
    /\ response.chunks = <<"aa", "", "bb">>
    /\ delivered = <<"aa">>
    /\ pulled = 1

\* a remote error is bound to ex in the except clause of an _invoke
CaughtRemote == op \in Invokes /\ caught.type \in RemoteTypes

BeginsWith5(m) == Len(m) > 0 /\ Head(m) = "5"

Has401or403(m) == Contains(m, <<"4", "0", "1">>) \/ Contains(m, <<"4", "0", "3">>)

Has429(m) == Contains(m, <<"4", "2", "9">>)

\* C5 as stated: every caught remote error whose message begins with "5" is
\* raised as ServerUnavailable.
C5_Leading5AlwaysServerUnavailable ==
    (CaughtRemote /\ BeginsWith5(caught.msg)) => raised.kind = "ServerUnavailable"

\* C5 as amended: a caught remote error whose message begins with "5" is
\* raised as ServerUnavailable when it is no JSON-decode error and its
\* message contains none of "401", "403", "429".
C5_Leading5ServerUnavailable ==
    (/\ CaughtRemote
     /\ BeginsWith5(caught.msg)
     /\ caught.type # "JSONDecodeError"
     /\ ~Has401or403(caught.msg)
     /\ ~Has429(caught.msg))
        => raised.kind = "ServerUnavailable"

C5_Witness ==
    /\ op = "speech2text._invoke"
    /\ caught = Err("ApiError", <<"5", "0">>)
    /\ raised.kind = "ServerUnavailable"

\* C6 as stated: every caught remote error whose message contains "429" is
\* raised as RateLimited.
C6_429AlwaysRateLimited ==
    (CaughtRemote /\ Has429(caught.msg)) => raised.kind = "RateLimited"

\* C6 as amended: a caught remote error whose message contains "429" is
\* raised as RateLimited when it is no JSON-decode error and its message
\* contains neither "401" nor "403".
C6_429RateLimited ==
    (/\ CaughtRemote
     /\ Has429(caught.msg)
     /\ caught.type # "JSONDecodeError"
     /\ ~Has401or403(caught.msg))
        => raised.kind = "RateLimited"

C6_Witness ==
    /\ op = "speech2text._invoke"
    /\ caught = Err("ApiError", <<"5", "4", "2", "9">>)
    /\ raised.kind = "RateLimited"

\* the rule list of the claim, top to bottom
RuleKind(t, m) ==
    IF t = "JSONDecodeError" THEN "BadRequest"
    ELSE IF Has401or403(m) THEN "Unauthorized"
    ELSE IF Has429(m) THEN "RateLimited"
    ELSE IF BeginsWith5(m) THEN "ServerUnavailable"
    ELSE "BadRequest"

\* C7: the kind transcribe and synthesize raise for a caught error is the one
\* the rule list gives for its type and message, the same in both adapters.
C7_KindFollowsRuleList ==
    (op \in Invokes /\ caught # NoErr)
        => raised.kind = RuleKind(caught.type, caught.msg)

C7_Witness ==
    /\ op = "tts._invoke"
    /\ caught = Err("JSONDecodeError", <<"4", "0", "1", "5">>)
    /\ raised.kind = "BadRequest"

\* C8: a transcribe call that reaches the remote endpoint sends the model the
\* caller passed and the caller's audio (the stream itself, or a stream over
\* the caller's bytes).
C8_SendsCallersModelAndAudio ==
    (op = "speech2text._invoke" /\ calls = <<"speech_to_text.convert">>) =>
        /\ sent.model_id = model
        /\ audio.type = "stream" => sent.file = audio
        /\ audio.type = "bytes" =>
              sent.file = [type |-> "BytesIO", handle |-> "-", data |-> audio.data]

Matching == {i \in 1..Len(voices) : Lower(voices[i].name) = Lower(voice)}

First(S) == CHOOSE i \in S : \A j \in S : i <= j

\* C9: synthesize sends the id of the first voice whose name equals the
\* requested name ignoring case, else that of the first voice; with no voice
\* at all it fails without calling the synthesis endpoint; the listing comes
\* before the synthesis call.
C9_VoiceResolution ==
    /\ ListReturned =>
          IF voices = <<>>
          THEN raised.kind # "none" /\ calls = <<"voices.get_all">>
          ELSE /\ calls = <<"voices.get_all", "text_to_speech.convert">>
               /\ sent.voice_id =
                     IF Matching # {} THEN voices[First(Matching)].voice_id
                     ELSE voices[1].voice_id
    /\ (op = "tts._invoke" /\ calls # <<>>) => calls[1] = "voices.get_all"

C9_Witness ==
    /\ ListReturned
    /\ Len(voices) = 2
    /\ voice = <<"a", "l">>
    /\ voices[1].name = <<"B", "o">>
    /\ voices[2].name = <<"a", "L">>
    /\ sent.voice_id = "v2"

\* C10: with credentials that pass the local check synthesize never raises
\* CredentialsInvalid; an empty voice list is raised as BadRequest.
C10_NoVoicesIsBadRequest ==
    (op = "tts._invoke" /\ PassedLocalCheck) =>
        /\ raised.kind # "CredentialsInvalid"
        /\ (ListReturned /\ voices = <<>>) => raised.kind = "BadRequest"

C10_Witness ==
    /\ op = "tts._invoke"
    /\ PassedLocalCheck
    /\ ListReturned
    /\ voices = <<>>
    /\ caught = Err("CredentialsValidateFailedError", NoVoicesMsg)
    /\ raised.kind = "BadRequest"

============================================================================
